---- MODULE Spec2Model ----
(***************************************************************************)
(* kcg-dataset-downloader: the resumable download-and-persist pipeline.    *)
(*                                                                         *)
(*   Spec       the orchestrator (DatasetDownloader.run / resume /         *)
(*              process_parquet_file) over an input directory of table     *)
(*              files, with Downloader.download_batch and Storage inside.  *)
(*   SpecStore  Storage alone: process starts, save_image calls, and       *)
(*              files removed from a batch directory from outside.         *)
(*   SpecRetry  Downloader.download_image_with_retry on one row.           *)
(*                                                                         *)
(* Strings whose characters matter (row keys, URLs, extensions, file       *)
(* names) are sequences of one-character strings.                          *)
(***************************************************************************)
EXTENDS Integers, Naturals, Sequences, FiniteSets, TLC

\* ------------------------------------------------------------------ bounds

\* Process invocations (main.py runs) in one behaviour of Spec / SpecStore.
MaxRuns == 2
\* Largest --retries value drawn (the smallest is -1: argparse takes any int).
MaxRetries == 2
\* Largest --batch-size-gb value drawn (the smallest is 0).
MaxThreshold == 1
\* Injected faults in one behaviour of Spec: a killed process, a failing table
\* read or write, a failing image write.
MaxFaults == 1
\* save_image calls in one behaviour of SpecStore.
MaxSaves == 3
\* Rows of a table handed to find_incomplete_rows in SpecRows.
MaxRows == 4
\* Characters of a URL handed to get_file_extension in SpecExt.
MaxUrlLen == 5

\* Sizes are counted in units of half a GiB: storage.py divides the byte
\* count by 1024 ** 3 before comparing it with batch_size_gb.
UnitsPerGB == 2

\* ----------------------------------------------------------------- helpers

Max(S) == CHOOSE x \in S : \A y \in S : y <= x

RECURSIVE SumSizes(_)
SumSizes(S) ==
    IF S = {} THEN 0
    ELSE LET f == CHOOSE x \in S : TRUE
         IN  f.size + SumSizes(S \ {f})

\* Index of the first / last element of s equal to c (0 when there is none).
FirstIndexOf(s, c) ==
    IF \E i \in DOMAIN s : s[i] = c
    THEN CHOOSE i \in DOMAIN s : s[i] = c /\ \A j \in 1..(i - 1) : s[j] # c
    ELSE 0

LastIndexOf(s, c) ==
    IF \E i \in DOMAIN s : s[i] = c
    THEN CHOOSE i \in DOMAIN s : s[i] = c /\ \A j \in (i + 1)..Len(s) : s[j] # c
    ELSE 0

\* str.lower() on the characters the model's URLs use.
LowerChar(c) ==
    CASE c = "P" -> "p"
      [] c = "N" -> "n"
      [] c = "G" -> "g"
      [] c = "J" -> "j"
      [] OTHER   -> c

Lower(s) == [i \in DOMAIN s |-> LowerChar(s[i])]

\* ------------------------------------------------------------ utils.py

AllowedExtensions ==
    { <<".", "j", "p", "g">>, <<".", "j", "p", "e", "g">>, <<".", "p", "n", "g">>,
      <<".", "g", "i", "f">>, <<".", "w", "e", "b", "p">>, <<".", "b", "m", "p">> }

DefaultExtension == <<".", "j", "p", "g">>

\* url.split("?")[0]
StripNothing(url) == url
StripQuery(url) ==
    LET q == FirstIndexOf(url, "?")
    IN  IF q = 0 THEN url ELSE SubSeq(url, 1, q - 1)

\* os.path.splitext(path)[1]: from the last dot of the last path component, unless
\* that component has only dots before it.
SplitExt(path) ==
    LET sep == LastIndexOf(path, "/")
        dot == LastIndexOf(path, ".")
    IN  IF dot > sep /\ \E i \in (sep + 1)..(dot - 1) : path[i] # "."
        THEN SubSeq(path, dot, Len(path))
        ELSE <<>>

get_file_extension(url) ==
    LET ext == Lower(SplitExt(StripQuery(url)))
    IN  IF ext = <<>> \/ ext \notin AllowedExtensions THEN DefaultExtension ELSE ext

\* ---------------------------------------------------------- storage.py

\* Storage._get_next_batch_number over the numeric subdirectories of output_dir.
NextBatchAfterMax(dirs) == IF dirs = {} THEN 1 ELSE Max(dirs)
_get_next_batch_number(dirs) == IF dirs = {} THEN 1 ELSE Max(dirs) + 1

\* The regular files directly inside batch directory b.
FilesIn(imgs, b) == { f \in imgs : f.batch = b }

\* Storage._check_batch_size: total_size / 1024 ** 3 >= batch_size_gb.
CheckNever(imgs, b, gb) == FALSE
_check_batch_size(imgs, b, gb) == SumSizes(FilesIn(imgs, b)) >= gb * UnitsPerGB

\* save_image, the rotation: the batch number the payload goes to.
TargetBatch(imgs, b, gb) == IF _check_batch_size(imgs, b, gb) THEN b + 1 ELSE b

\* str(key).replace("/", "_").replace("\\", "_")
SafeKey(key) == [i \in DOMAIN key |-> IF key[i] \in {"/", "\\"} THEN "_" ELSE key[i]]

\* f"{safe_key}{extension}"
FileName(key, ext) == SafeKey(key) \o ext

\* open(filepath, "wb").write(...): the file of that name in that directory is
\* created or replaced.
WriteFile(imgs, b, name, payload) ==
    { f \in imgs : ~(f.batch = b /\ f.name = name) }
        \cup { [batch |-> b, name |-> name, size |-> payload.size, of |-> payload.of] }

\* A path returned by save_image; NoPath is an unset filepath cell.
Path(b, name) == [set |-> TRUE, batch |-> b, name |-> name]
NoPath == [set |-> FALSE, batch |-> 0, name |-> <<>>]

\* ------------------------------------------------------- downloader.py

\* What one download_image call yields: "ok" (a payload) or str(err).
ErrorMessages == { "timed out", "HTTP Error 404" }
AttemptOutcomes == { "ok" } \cup ErrorMessages

\* The outcomes the next attempts on a URL would have, first attempt first.
Fixtures == [1..(MaxRetries + 1) -> AttemptOutcomes]

\* Downloader.download_image_with_retry: the loop over range(retries + 1), from
\* attempt i on; n attempts were made so far and err is the last error.  With
\* retries < 0 the loop body never runs and "return key, None, err" raises
\* UnboundLocalError.
RECURSIVE RetryLoop(_, _, _, _)
RetryLoop(fix, n, last, i) ==
    IF i > n
    THEN IF n <= 0
         THEN [kind |-> "raise", err |-> "UnboundLocalError", attempts |-> 0]
         ELSE [kind |-> "fail", err |-> last, attempts |-> n]
    ELSE IF fix[i] = "ok"
         THEN [kind |-> "ok", err |-> "none", attempts |-> i]
         ELSE RetryLoop(fix, n, fix[i], i + 1)

RetryNoStop(fix, retries) ==
    LET n == retries + 1
    IN  IF n <= 0 THEN [kind |-> "raise", err |-> "UnboundLocalError", attempts |-> 0]
        ELSE IF fix[n] = "ok" THEN [kind |-> "ok", err |-> "none", attempts |-> n]
        ELSE [kind |-> "fail", err |-> fix[n], attempts |-> n]
download_image_with_retry(fix, retries) == RetryLoop(fix, retries + 1, "none", 1)

\* ------------------------------------------------------ the table files

\* The table files of input_dir: <stem>.parquet, <stem>_processing.parquet and
\* <stem>_processed.parquet are <<stem, "">>, <<stem, "_processing">> and
\* <<stem, "_processed">>.
Stems == { "f1", "f2" }
Suffixes == { "", "_processing", "_processed" }
Names == Stems \X Suffixes
NoName == <<"none", "">>

Statuses == { "unset", "success", "failed" }

Row(key, url, status) ==
    [key |-> key, url |-> url, status |-> status,
     error |-> IF status = "failed" THEN "timed out" ELSE "none", filepath |-> NoPath]

\* A name that holds no file, and a name that holds a table (urlcol: whether the
\* table has the column --url-column names).
Absent == [exists |-> FALSE, urlcol |-> FALSE, rows |-> <<>>]
Table(urlcol, rows) == [exists |-> TRUE, urlcol |-> urlcol, rows |-> rows]

\* A DataFrame in memory; NoDf when none is loaded.
NoDf == [urlcol |-> FALSE, rows |-> <<>>]

\* The key of row i under a RangeIndex (what a table written with index=False
\* is read back with).
RangeKey(i) == << CASE i = 1 -> "0" [] i = 2 -> "1" [] i = 3 -> "2" [] OTHER -> "9" >>

UrlPng == << "a", ".", "P", "N", "G", "?", "x" >>
UrlBare == << "x", ".", "c", "/", "a" >>
KeySlash == << "a", "/", "b" >>
KeyUnder == << "a", "_", "b" >>

\* The tables a file of the input directory may start with.  A table with
\* resolved rows was written by write_parquet, so it has a RangeIndex; a table
\* with its own index has never been written back.  The first rows of f1 and
\* f2 have the same index label and the same URL.
InitTables(stem) ==
    IF stem = "f1"
    THEN { Table(TRUE, << Row(RangeKey(1), UrlPng, s1), Row(RangeKey(2), UrlBare, s2) >>) :
              s1 \in { "unset", "success" }, s2 \in { "unset", "failed" } }
         \cup { Table(TRUE, << Row(KeySlash, UrlBare, "unset"), Row(KeyUnder, UrlBare, "unset") >>),
                Table(FALSE, << Row(RangeKey(1), UrlBare, "unset"), Row(RangeKey(2), UrlBare, "unset") >>) }
    ELSE { Table(TRUE, << Row(RangeKey(1), UrlPng, "unset") >>) }

\* os.rename(src, dst) on an existing src: dst is created or replaced.
Rename(dir, src, dst) == [dir EXCEPT ![dst] = dir[src], ![src] = Absent]

\* os.rename(src, dst) as a call: it raises FileNotFoundError when src does not
\* exist; when dst exists it replaces dst on POSIX and raises FileExistsError
\* on Windows.
os_copy(dir, src, dst, os) ==
    IF ~dir[src].exists
    THEN [ok |-> FALSE, err |-> "FileNotFoundError", dir |-> dir]
    ELSE [ok |-> TRUE, err |-> "none", dir |-> [dir EXCEPT ![dst] = dir[src]]]
os_rename(dir, src, dst, os) ==
    IF ~dir[src].exists
    THEN [ok |-> FALSE, err |-> "FileNotFoundError", dir |-> dir]
    ELSE IF dir[dst].exists /\ os = "windows"
         THEN [ok |-> FALSE, err |-> "FileExistsError", dir |-> dir]
         ELSE [ok |-> TRUE, err |-> "none", dir |-> Rename(dir, src, dst)]

\* ------------------------------------------------- parquet_handler.py

\* list_parquet_files: the *.parquet names with neither suffix.
list_parquet_files(dir) == { n \in Names : dir[n].exists /\ n[2] = "" }

\* parquet_file.replace(".parquet", "_processing.parquet")
ProcessingName(n) == << n[1], "_processing" >>

\* processing_file.replace("_processing.parquet", "_processed.parquet")
ProcessedName(n) == IF n[2] = "_processing" THEN << n[1], "_processed" >> ELSE n

\* mark_as_processing / mark_as_processed: os.rename to the other form.
MarkProcessingSkips(dir, f) == Rename(dir, f, ProcessedName(ProcessingName(f)))
mark_as_processing(dir, f) == Rename(dir, f, ProcessingName(f))

mark_as_processed(dir, n) == Rename(dir, n, ProcessedName(n))

\* read_parquet: the stored rows; a missing status / error column is filled
\* with None, which is how Row already holds an unset cell.
read_parquet(dir, n) == [urlcol |-> dir[n].urlcol, rows |-> dir[n].rows]

\* write_parquet: df.to_parquet(path, index=False) drops the index, so row i is
\* read back with key i - 1.
write_parquet(dir, n, d) ==
    [dir EXCEPT ![n] = Table(d.urlcol, [i \in DOMAIN d.rows |-> [d.rows[i] EXCEPT !.key = RangeKey(i)]])]

\* read_parquet, lines 76-77: a table stored without a status column gets one
\* filled with None.
FillStatus(hascol, rows) ==
    IF hascol THEN rows ELSE [i \in DOMAIN rows |-> [rows[i] EXCEPT !.status = "unset"]]

\* find_incomplete_rows: df[df['status'].isna()]
IsNotSuccess(r) == r.status # "success"
IsUnset(r) == r.status = "unset"
AllRows(rows) == rows
find_incomplete_rows(rows) == SelectSeq(rows, IsUnset)

KeysOf(rows) == { rows[i].key : i \in DOMAIN rows }

\* df.loc[idx]: the position of the row whose index label is idx.
Loc(rows, idx) == CHOOSE i \in DOMAIN rows : rows[i].key = idx

\* ------------------------------------------------------------------ state

VARIABLES
    \* Config (set by the command line, fixed afterwards)
    max_workers, retries, batch_size_gb,
    \* the disk: input_dir (name -> table), the numeric subdirectories of
    \* output_dir, and the image files inside them
    inputDir, batchDirs, images,
    \* the running process: where it is, which loop it is in, how many processes
    \* were started, the files its loop has left, the file at hand
    pc, mode, runs, faults, todo, cur,
    \* process_parquet_file / resume locals: df, the futures (key -> state), the
    \* results dict in insertion order, the position of the loop over it
    df, tasks, results, ri,
    success_count, total_success, resume_total, returned,
    \* Storage.current_batch
    current_batch,
    \* observed, per table file at hand: what its processing ended with, the image
    \* files written for it, the path save_image returned per key, whether a save
    \* raised, and the error run / resume last logged
    ret, written, savedPath, persistErr, lastError,
    \* observed, per run() call: the files list_parquet_files gave it and what
    \* each process_parquet_file call it made ended with
    listed, attempts,
    \* observed, per resume() call: the processing files it found and what the
    \* handling of each ended with
    found, resumed,
    \* observed, per process (SpecStore): the batch directories found at start, the
    \* batch given by __init__, the last save (batch, directory size when its write
    \* began), the batch of the save before it, the directories whose size ever
    \* reached the threshold, the number of saves
    preexisting, startBatch, lastWrite, prevTarget, closed, saves,
    \* SpecRetry: the fixture of the URL at hand and what the call returned
    rt_fix, rt_res,
    \* SpecMark: the platform os.rename runs on, and the last mark_as_processing
    \* call (its argument, the directory before it, how it ended)
    mk_os, mk_res,
    \* SpecRace: the processes running run() on one input directory, each with
    \* its position, its list, the file and table at hand, and what it did
    procs,
    \* SpecRows: a stored table (whether it has a status column, its rows) and
    \* what read_parquet and find_incomplete_rows gave for it
    fi_hascol, fi_rows, fi_out,
    \* SpecExt: a URL and what get_file_extension returned for it
    ex_url, ex_out

confVars == << max_workers, retries, batch_size_gb >>
diskVars == << inputDir, batchDirs, images >>
procVars == << pc, mode, runs, faults, todo, cur, df, tasks, results, ri,
               success_count, total_success, resume_total, returned, current_batch >>
fileObs == << ret, written, savedPath, persistErr, lastError >>
storeObs == << preexisting, startBatch, lastWrite, prevTarget, closed, saves >>
retryVars == << rt_fix, rt_res >>
rowVars == << fi_hascol, fi_rows, fi_out >>
extVars == << ex_url, ex_out >>
callVars == << mk_os, mk_res, procs, rowVars, extVars >>
runObs == << listed, attempts, found, resumed >>
vars == << confVars, diskVars, procVars, fileObs, runObs, storeObs, retryVars, callVars >>

NoRet == [file |-> "none", kind |-> "none", count |-> 0]
NoWrite == [batch |-> 0, sizeAtStart |-> 0, wasClosed |-> FALSE]
NoResult == [kind |-> "none", err |-> "none", attempts |-> 0]
NoTasks == [k \in {} |-> "queued"]

StoreObsIdle ==
    /\ preexisting = {} /\ startBatch = 0 /\ lastWrite = NoWrite
    /\ prevTarget = 0 /\ closed = {} /\ saves = 0

NoMark == [kind |-> "none", src |-> NoName, path |-> NoName, before |-> << >>]
Procs == { "p1", "p2" }
NoProc == [pc |-> "start", todo |-> {}, cur |-> NoName, df |-> NoDf,
           renamed |-> {}, errs |-> {}, fetched |-> {}, wrote |-> {}, completed |-> {}]
NoOut == [done |-> FALSE, loaded |-> <<>>, rows |-> <<>>, twice |-> <<>>]
RowsIdle == fi_hascol = TRUE /\ fi_rows = <<>> /\ fi_out = NoOut
NoExt == << "none" >>
ExtIdle == ex_url = <<>> /\ ex_out = NoExt
CallIdle ==
    /\ mk_os = "posix" /\ mk_res = NoMark /\ procs = [p \in Procs |-> NoProc]
    /\ RowsIdle /\ ExtIdle

RetryIdle == rt_fix = [i \in 1..(MaxRetries + 1) |-> "ok"] /\ rt_res = NoResult

ProcIdle ==
    /\ pc = "idle" /\ mode = "none" /\ runs = 0 /\ faults = 0 /\ todo = {} /\ cur = NoName
    /\ df = NoDf /\ tasks = NoTasks /\ results = <<>> /\ ri = 1
    /\ success_count = 0 /\ total_success = 0 /\ resume_total = 0 /\ returned = -1
    /\ current_batch = 0
    /\ ret = NoRet /\ written = {} /\ savedPath = NoTasks /\ persistErr = FALSE
    /\ lastError = "none"
    /\ listed = {} /\ attempts = {} /\ found = {} /\ resumed = {}

\* The input directory before the first process: every table file is pending
\* or was left in processing by an earlier, interrupted process.
Init ==
    /\ max_workers \in 0..2
    /\ retries \in { -1, MaxRetries }
    /\ batch_size_gb \in 0..MaxThreshold
    /\ \E form \in [Stems -> { "", "_processing" }] :
       \E tab \in [Stems -> InitTables("f1") \cup InitTables("f2")] :
          /\ \A s \in Stems : tab[s] \in InitTables(s)
          /\ inputDir = [n \in Names |-> IF n[2] = form[n[1]] THEN tab[n[1]] ELSE Absent]
    /\ batchDirs = {} /\ images = {}
    /\ ProcIdle /\ StoreObsIdle /\ RetryIdle /\ CallIdle

\* --------------------------------------------------- Storage.save_image

\* save_image(key, img_stream, extension): rotate when _check_batch_size says
\* so, then write <safe_key><extension> into the current batch directory.
\* Gives the new current_batch, directories and files, and the returned path.
save_image(imgs, dirs, b, gb, key, payload, ext) ==
    LET t == TargetBatch(imgs, b, gb)
        name == FileName(key, ext)
    IN  [batch |-> t, dirs |-> dirs \cup { t },
         imgs |-> WriteFile(imgs, t, name, payload), path |-> Path(t, name)]

\* ------------------------------------------------------------- app.py

ProcessingFiles(dir) == { n \in Names : dir[n].exists /\ n[2] = "_processing" }

LoopPc == IF mode = "resume" THEN "rs_loop" ELSE "run_loop"

\* DatasetDownloader.__init__: Storage.__init__ takes the next batch number
\* and creates its directory.
Construct ==
    /\ current_batch' = _get_next_batch_number(batchDirs)
    /\ batchDirs' = batchDirs \cup { _get_next_batch_number(batchDirs) }

\* The environment makes one more operation fail (or kills the process).
Fault == faults < MaxFaults /\ faults' = faults + 1

FileLocalsReset ==
    /\ df' = NoDf /\ tasks' = NoTasks /\ results' = <<>> /\ ri' = 1
    /\ success_count' = 0
    /\ ret' = NoRet /\ written' = {} /\ savedPath' = NoTasks /\ persistErr' = FALSE

\* What a process_parquet_file call made by run(), or the handling of a file
\* by resume(), ended with is kept.
RecordAttempt ==
    /\ listed' = listed /\ found' = found
    /\ attempts' = IF mode = "run" /\ ret' # NoRet THEN attempts \cup { ret' } ELSE attempts
    /\ resumed' = IF mode = "resume" /\ ret' # NoRet THEN resumed \cup { ret' } ELSE resumed

\* "except Exception as e: self.logger.error(...)" of the run / resume loop: the
\* file is left as it is and the loop goes on.
FileError(file, msg) ==
    /\ pc' = LoopPc
    /\ ret' = [file |-> file[1], kind |-> "error", count |-> 0]
    /\ lastError' = msg

\* main(): a process without --resume.
StartRun ==
    /\ pc = "idle" /\ runs < MaxRuns
    /\ runs' = runs + 1 /\ faults' = faults
    /\ Construct
    /\ pc' = "run_enter" /\ mode' = "run"
    /\ todo' = {} /\ cur' = NoName /\ FileLocalsReset
    /\ total_success' = 0 /\ resume_total' = 0 /\ returned' = -1
    /\ lastError' = "none"
    /\ UNCHANGED << confVars, inputDir, images, storeObs, retryVars, callVars >>
    /\ listed' = {} /\ attempts' = {} /\ found' = {} /\ resumed' = {}

\* main(): a process with --resume; resume() up to its loop.
StartResume ==
    /\ pc = "idle" /\ runs < MaxRuns
    /\ runs' = runs + 1 /\ faults' = faults
    /\ Construct
    /\ IF ProcessingFiles(inputDir) = {}
       THEN pc' = "run_enter" /\ mode' = "run" /\ todo' = {}
       ELSE pc' = "rs_loop" /\ mode' = "resume" /\ todo' = ProcessingFiles(inputDir)
    /\ cur' = NoName /\ FileLocalsReset
    /\ total_success' = 0 /\ resume_total' = 0 /\ returned' = -1
    /\ lastError' = "none"
    /\ UNCHANGED << confVars, inputDir, images, storeObs, retryVars, callVars >>
    /\ listed' = {} /\ attempts' = {} /\ found' = ProcessingFiles(inputDir) /\ resumed' = {}

\* run(), up to its loop: list the pending files.
RunEnter ==
    /\ pc = "run_enter"
    /\ IF list_parquet_files(inputDir) = {}
       THEN /\ pc' = "idle" /\ mode' = "none" /\ returned' = resume_total
            /\ todo' = {}
       ELSE /\ pc' = "run_loop" /\ mode' = "run" /\ returned' = returned
            /\ todo' = list_parquet_files(inputDir)
    /\ total_success' = 0
    /\ UNCHANGED << confVars, diskVars, runs, faults, cur, df, tasks, results, ri, success_count,
                    resume_total, current_batch, fileObs, storeObs, retryVars, callVars >>
    /\ listed' = list_parquet_files(inputDir) /\ attempts' = {}
    /\ UNCHANGED << found, resumed >>

\* The end of run()'s loop: return total_success (added to resume's own).
RunReturnAnytime ==
    /\ pc = "run_loop"
    /\ pc' = "idle" /\ mode' = "none"
    /\ returned' = resume_total + total_success
    /\ cur' = NoName /\ FileLocalsReset /\ lastError' = "none"
    /\ UNCHANGED << confVars, diskVars, runs, faults, todo, total_success, resume_total,
                    current_batch, storeObs, retryVars, callVars >>
    /\ UNCHANGED runObs
RunReturn ==
    /\ pc = "run_loop" /\ todo = {}
    /\ pc' = "idle" /\ mode' = "none"
    /\ returned' = resume_total + total_success
    /\ cur' = NoName /\ FileLocalsReset /\ lastError' = "none"
    /\ UNCHANGED << confVars, diskVars, runs, faults, todo, total_success, resume_total,
                    current_batch, storeObs, retryVars, callVars >>
    /\ UNCHANGED runObs

\* process_parquet_file, its first statement: mark_as_processing.
PF_MarkAsProcessing(f) ==
    /\ pc = "run_loop" /\ f \in todo
    /\ todo' = todo \ { f }
    /\ df' = NoDf /\ tasks' = NoTasks /\ results' = <<>> /\ ri' = 1 /\ success_count' = 0
    /\ written' = {} /\ savedPath' = NoTasks /\ persistErr' = FALSE
    /\ IF inputDir[f].exists
       THEN /\ inputDir' = mark_as_processing(inputDir, f)
            /\ cur' = ProcessingName(f)
            /\ pc' = "read" /\ ret' = NoRet /\ lastError' = lastError
       ELSE /\ inputDir' = inputDir
            /\ cur' = f
            /\ FileError(f, "No such file or directory")
    /\ UNCHANGED << confVars, batchDirs, images, mode, runs, faults, total_success, resume_total,
                    returned, current_batch, storeObs, retryVars, callVars >>
    /\ RecordAttempt

\* process_parquet_file, lines 60-71: read the table; with no incomplete row
\* mark it processed and return 0, else go on to download_batch.
PF_Read ==
    /\ pc = "read" /\ mode = "run"
    /\ \/ /\ Fault
          /\ FileError(cur, "read_parquet failed")
          /\ UNCHANGED << inputDir, df, total_success >>
       \/ /\ df' = read_parquet(inputDir, cur)
          /\ UNCHANGED faults
          /\ IF find_incomplete_rows(read_parquet(inputDir, cur).rows) = <<>>
             THEN /\ inputDir' = mark_as_processed(inputDir, cur)
                  /\ pc' = "run_loop"
                  /\ ret' = [file |-> cur[1], kind |-> "ok", count |-> 0]
                  /\ total_success' = total_success + 0
             ELSE /\ pc' = "download_submit"
                  /\ UNCHANGED << inputDir, ret, total_success >>
          /\ UNCHANGED lastError
    /\ UNCHANGED << confVars, batchDirs, images, mode, runs, todo, cur, tasks, results, ri,
                    success_count, resume_total, returned, current_batch,
                    written, savedPath, persistErr, storeObs, retryVars, callVars >>
    /\ RecordAttempt

\* resume, lines 161-174: take the next processing file and read it; with no
\* incomplete row mark it processed and continue.
RS_Read(f) ==
    /\ pc = "rs_loop" /\ f \in todo
    /\ todo' = todo \ { f }
    /\ cur' = f
    /\ tasks' = NoTasks /\ results' = <<>> /\ ri' = 1 /\ success_count' = 0
    /\ written' = {} /\ savedPath' = NoTasks /\ persistErr' = FALSE
    /\ \/ /\ Fault
          /\ FileError(f, "read_parquet failed")
          /\ df' = NoDf
          /\ UNCHANGED << inputDir >>
       \/ /\ inputDir[f].exists
          /\ UNCHANGED faults
          /\ df' = read_parquet(inputDir, f)
          /\ IF find_incomplete_rows(read_parquet(inputDir, f).rows) = <<>>
             THEN /\ inputDir' = mark_as_processed(inputDir, f)
                  /\ pc' = "rs_loop"
                  /\ ret' = [file |-> f[1], kind |-> "ok", count |-> 0]
             ELSE /\ pc' = "download_submit"
                  /\ ret' = NoRet
                  /\ UNCHANGED << inputDir >>
          /\ UNCHANGED lastError
    /\ UNCHANGED << confVars, batchDirs, images, mode, runs, total_success, resume_total,
                    returned, current_batch, storeObs, retryVars, callVars >>
    /\ RecordAttempt

\* The end of resume's loop: "return total_success + self.run(url_column)".
ResumeDoneEarly ==
    /\ pc = "rs_loop"
    /\ resume_total' = total_success
    /\ pc' = "run_enter" /\ mode' = "run"
    /\ cur' = NoName /\ FileLocalsReset /\ lastError' = "none"
    /\ UNCHANGED << confVars, diskVars, runs, faults, todo, total_success, returned,
                    current_batch, storeObs, retryVars, callVars >>
    /\ UNCHANGED runObs
ResumeDone ==
    /\ pc = "rs_loop" /\ todo = {}
    /\ resume_total' = total_success
    /\ pc' = "run_enter" /\ mode' = "run"
    /\ cur' = NoName /\ FileLocalsReset /\ lastError' = "none"
    /\ UNCHANGED << confVars, diskVars, runs, faults, todo, total_success, returned,
                    current_batch, storeObs, retryVars, callVars >>
    /\ UNCHANGED runObs

\* ------------------------------------------- Downloader.download_batch

NoPayload == [size |-> 0, of |-> << "none", 0 >>]

InFlight == { k \in DOMAIN tasks : tasks[k] = "running" }

\* ThreadPoolExecutor(max_workers=...) raises ValueError unless max_workers > 0;
\* otherwise one download_image_with_retry future is submitted per row of the
\* incomplete rows.
DB_Submit ==
    /\ pc = "download_submit"
    /\ IF max_workers <= 0
       THEN /\ FileError(cur, "max_workers must be greater than 0")
            /\ tasks' = tasks
       ELSE /\ tasks' = [k \in KeysOf(find_incomplete_rows(df.rows)) |-> "queued"]
            /\ pc' = "download_wait"
            /\ UNCHANGED << ret, lastError >>
    /\ UNCHANGED << confVars, diskVars, mode, runs, faults, todo, cur, df, results, ri, success_count,
                    total_success, resume_total, returned, current_batch,
                    written, savedPath, persistErr, storeObs, retryVars, callVars >>
    /\ RecordAttempt

\* A worker thread of the pool takes a queued future.
DB_StartTaskUnbounded(k) ==
    /\ pc = "download_wait"
    /\ k \in DOMAIN tasks /\ tasks[k] = "queued"
    /\ tasks' = [tasks EXCEPT ![k] = "running"]
    /\ UNCHANGED << confVars, diskVars, pc, mode, runs, faults, todo, cur, df, results, ri,
                    success_count, total_success, resume_total, returned, current_batch,
                    fileObs, storeObs, retryVars, callVars >>
    /\ UNCHANGED runObs
DB_StartTask(k) ==
    /\ pc = "download_wait"
    /\ k \in DOMAIN tasks /\ tasks[k] = "queued"
    /\ Cardinality(InFlight) < max_workers
    /\ tasks' = [tasks EXCEPT ![k] = "running"]
    /\ UNCHANGED << confVars, diskVars, pc, mode, runs, faults, todo, cur, df, results, ri,
                    success_count, total_success, resume_total, returned, current_batch,
                    fileObs, storeObs, retryVars, callVars >>
    /\ UNCHANGED runObs

\* The URLs of the tables either answer or time out.
BatchFixtures == { fix \in Fixtures : \A i \in DOMAIN fix : fix[i] # "HTTP Error 404" }

\* What the future of row k ends with.  row[url_column] (downloader.py:35, outside
\* the try) raises KeyError when the table has no such column.
TaskOutcomes(k) ==
    IF ~df.urlcol
    THEN { [kind |-> "raise", err |-> "KeyError: 'url'", attempts |-> 0] }
    ELSE { download_image_with_retry(fix, retries) : fix \in BatchFixtures }

\* results[idx] = (img_stream, err), or (None, str(exc)) when future.result()
\* raises.
ResultEntry(k, out) ==
    [key |-> k,
     kind |-> IF out.kind = "ok" THEN "ok" ELSE "fail",
     err |-> out.err,
     payload |-> IF out.kind = "ok"
                 THEN [size |-> 1, of |-> << cur[1], Loc(df.rows, k) >>]
                 ELSE NoPayload]

\* A future completes and as_completed hands it to the collecting loop.
DB_CompleteTask(k) ==
    /\ pc = "download_wait"
    /\ k \in DOMAIN tasks /\ tasks[k] = "running"
    /\ \E out \in TaskOutcomes(k) :
          results' = Append(results, ResultEntry(k, out))
    /\ tasks' = [tasks EXCEPT ![k] = "done"]
    /\ UNCHANGED << confVars, diskVars, pc, mode, runs, faults, todo, cur, df, ri,
                    success_count, total_success, resume_total, returned, current_batch,
                    fileObs, storeObs, retryVars, callVars >>
    /\ UNCHANGED runObs

\* as_completed is exhausted and the executor shut down: return results.
DB_ReturnEarly ==
    /\ pc = "download_wait"
    /\ pc' = "apply" /\ ri' = 1
    /\ UNCHANGED << confVars, diskVars, mode, runs, faults, todo, cur, df, tasks, results,
                    success_count, total_success, resume_total, returned, current_batch,
                    fileObs, storeObs, retryVars, callVars >>
    /\ UNCHANGED runObs
DB_Return ==
    /\ pc = "download_wait"
    /\ \A k \in DOMAIN tasks : tasks[k] = "done"
    /\ pc' = "apply" /\ ri' = 1
    /\ UNCHANGED << confVars, diskVars, mode, runs, faults, todo, cur, df, tasks, results,
                    success_count, total_success, resume_total, returned, current_batch,
                    fileObs, storeObs, retryVars, callVars >>
    /\ UNCHANGED runObs

\* ------------------------------------------- applying the results

\* The row update of a saved image: process_parquet_file (lines 88-89) sets
\* status and error; resume (lines 191-193) sets filepath too.
SetSuccessRun(rows, i, path) ==
    [rows EXCEPT ![i].status = "success", ![i].error = "none"]
SetSuccessResume(rows, i, path) ==
    [rows EXCEPT ![i].status = "success", ![i].error = "none", ![i].filepath = path]

\* df.loc[idx, 'status'] = 'failed'; df.loc[idx, 'error'] = err
SetFailedColumn(rows, i, err) ==
    [j \in DOMAIN rows |-> [rows[j] EXCEPT !.status = "failed", !.error = err]]
SetFailedErrorOnly(rows, i, err) == [rows EXCEPT ![i].error = err]
SetFailed(rows, i, err) == [rows EXCEPT ![i].status = "failed", ![i].error = err]

\* One turn of "for idx, (img_stream, err) in results.items()", the same in
\* both callers but for the row update of a success.  A save may raise
\* (open / write failing) after the rotation was done.
ApplyResult(r, success_path) ==
    LET i == Loc(df.rows, r.key)
        sv == save_image(images, batchDirs, current_batch, batch_size_gb,
                         r.key, r.payload, get_file_extension(df.rows[i].url))
    IN  IF r.kind = "ok"
        THEN \/ /\ current_batch' = sv.batch /\ batchDirs' = sv.dirs /\ images' = sv.imgs
                /\ df' = [df EXCEPT !.rows =
                            IF success_path = "resume"
                            THEN SetSuccessResume(df.rows, i, sv.path)
                            ELSE SetSuccessRun(df.rows, i, sv.path)]
                /\ success_count' = success_count + 1
                /\ written' = written \cup { << sv.path.batch, sv.path.name >> }
                /\ savedPath' = [k \in DOMAIN savedPath \cup { r.key } |->
                                    IF k = r.key THEN sv.path ELSE savedPath[k]]
                /\ UNCHANGED << persistErr, faults >>
             \/ /\ Fault
                /\ current_batch' = sv.batch /\ batchDirs' = sv.dirs /\ images' = images
                /\ df' = [df EXCEPT !.rows = SetFailed(df.rows, i, "save failed")]
                /\ persistErr' = TRUE
                /\ UNCHANGED << success_count, written, savedPath >>
        ELSE /\ df' = [df EXCEPT !.rows = SetFailed(df.rows, i, r.err)]
             /\ UNCHANGED << current_batch, batchDirs, images, success_count, written,
                             savedPath, persistErr, faults >>

\* process_parquet_file, lines 78-97.
PF_ApplyResult ==
    /\ pc = "apply" /\ mode = "run" /\ ri <= Len(results)
    /\ ApplyResult(results[ri], "run")
    /\ ri' = ri + 1
    /\ UNCHANGED << confVars, inputDir, pc, mode, runs, todo, cur, tasks, results,
                    total_success, resume_total, returned, ret, lastError,
                    storeObs, retryVars, callVars >>
    /\ UNCHANGED runObs

\* resume, lines 181-201.
RS_ApplyResult ==
    /\ pc = "apply" /\ mode = "resume" /\ ri <= Len(results)
    /\ ApplyResult(results[ri], "resume")
    /\ ri' = ri + 1
    /\ UNCHANGED << confVars, inputDir, pc, mode, runs, todo, cur, tasks, results,
                    total_success, resume_total, returned, ret, lastError,
                    storeObs, retryVars, callVars >>
    /\ UNCHANGED runObs

\* process_parquet_file line 100 / resume line 204: write the table back; a
\* failing write is caught by the loop.
WriteBackMarksOnError ==
    /\ pc = "apply" /\ ri > Len(results)
    /\ \/ /\ Fault
          /\ FileError(cur, "write_parquet failed")
          /\ inputDir' = mark_as_processed(inputDir, cur)
       \/ /\ inputDir' = write_parquet(inputDir, cur, df)
          /\ pc' = "mark"
          /\ UNCHANGED << ret, lastError, faults >>
    /\ UNCHANGED << confVars, batchDirs, images, mode, runs, todo, cur, df, tasks, results, ri,
                    success_count, total_success, resume_total, returned, current_batch,
                    written, savedPath, persistErr, storeObs, retryVars, callVars >>
    /\ RecordAttempt
WriteBack ==
    /\ pc = "apply" /\ ri > Len(results)
    /\ \/ /\ Fault
          /\ FileError(cur, "write_parquet failed")
          /\ UNCHANGED inputDir
       \/ /\ inputDir' = write_parquet(inputDir, cur, df)
          /\ pc' = "mark"
          /\ UNCHANGED << ret, lastError, faults >>
    /\ UNCHANGED << confVars, batchDirs, images, mode, runs, todo, cur, df, tasks, results, ri,
                    success_count, total_success, resume_total, returned, current_batch,
                    written, savedPath, persistErr, storeObs, retryVars, callVars >>
    /\ RecordAttempt

\* process_parquet_file lines 103-105 with run line 130 / resume lines 207-209:
\* mark the file processed and add its count to the total.
MarkDone ==
    /\ pc = "mark"
    /\ inputDir' = mark_as_processed(inputDir, cur)
    /\ total_success' = total_success + success_count
    /\ ret' = [file |-> cur[1], kind |-> "ok", count |-> success_count]
    /\ pc' = LoopPc
    /\ UNCHANGED << confVars, batchDirs, images, mode, runs, faults, todo, cur, df, tasks, results, ri,
                    success_count, resume_total, returned, current_batch,
                    written, savedPath, persistErr, lastError, storeObs, retryVars, callVars >>
    /\ RecordAttempt

\* The process is killed: what it held in memory is gone, the disk stays.
Crash ==
    /\ pc # "idle"
    /\ Fault
    /\ pc' = "idle" /\ mode' = "none"
    /\ todo' = {} /\ cur' = NoName /\ FileLocalsReset
    /\ total_success' = 0 /\ resume_total' = 0 /\ returned' = -1
    /\ lastError' = "none"
    /\ UNCHANGED << confVars, diskVars, runs, current_batch, storeObs, retryVars, callVars >>
    /\ listed' = {} /\ attempts' = {} /\ found' = {} /\ resumed' = {}

Next ==
    \/ StartRun
    \/ StartResume
    \/ RunEnter
    \/ RunReturn
    \/ \E f \in Names : PF_MarkAsProcessing(f)
    \/ PF_Read
    \/ \E f \in Names : RS_Read(f)
    \/ ResumeDone
    \/ DB_Submit
    \/ \E k \in DOMAIN tasks : DB_StartTask(k)
    \/ \E k \in DOMAIN tasks : DB_CompleteTask(k)
    \/ DB_Return
    \/ PF_ApplyResult
    \/ RS_ApplyResult
    \/ WriteBack
    \/ MarkDone
    \/ Crash

Spec == Init /\ [][Next]_vars

\* ------------------------------------------------- SpecStore: Storage

DirSize(imgs, b) == SumSizes(FilesIn(imgs, b))

\* The batch directories whose size is at or over the threshold.
AtThreshold(imgs, dirs, gb) == { b \in dirs : DirSize(imgs, b) >= gb * UnitsPerGB }

\* A file an earlier process left in batch directory b.
OldFile(b) == [batch |-> b, name |-> << "o" >>, size |-> 1, of |-> << "old", 0 >>]

StoreKeys == { << "k" >>, << "m" >> }
StoreSizes == { 1, 2 }

StoreInit ==
    /\ max_workers = 1 /\ retries = 0
    /\ batch_size_gb \in 0..MaxThreshold
    /\ inputDir = [n \in Names |-> Absent]
    /\ batchDirs \in SUBSET (1..2)
    /\ images \in SUBSET { OldFile(b) : b \in 1..2 }
    /\ \A f \in images : f.batch \in batchDirs
    /\ ProcIdle /\ RetryIdle /\ CallIdle
    /\ preexisting = {} /\ startBatch = 0 /\ lastWrite = NoWrite
    /\ prevTarget = 0 /\ saves = 0
    /\ closed = AtThreshold(images, batchDirs, batch_size_gb)

\* A process starts: Storage.__init__.
ST_Start ==
    /\ runs < MaxRuns
    /\ runs' = runs + 1
    /\ preexisting' = batchDirs
    /\ Construct
    /\ startBatch' = _get_next_batch_number(batchDirs)
    /\ lastWrite' = NoWrite /\ prevTarget' = 0
    /\ closed' = closed \cup AtThreshold(images, batchDirs', batch_size_gb)
    /\ UNCHANGED << confVars, inputDir, images, pc, mode, faults, todo, cur, df, tasks, results,
                    ri, success_count, total_success, resume_total, returned,
                    fileObs, saves, retryVars, callVars >>
    /\ UNCHANGED runObs

\* The running process saves one payload.
ST_Save(key, size) ==
    /\ runs >= 1 /\ saves < MaxSaves
    /\ LET sv == save_image(images, batchDirs, current_batch, batch_size_gb, key,
                            [size |-> size, of |-> << "s", saves >>], DefaultExtension)
       IN  /\ current_batch' = sv.batch /\ batchDirs' = sv.dirs /\ images' = sv.imgs
           /\ lastWrite' = [batch |-> sv.batch,
                            sizeAtStart |-> DirSize(images, sv.batch),
                            wasClosed |-> sv.batch \in closed]
           /\ closed' = closed \cup AtThreshold(sv.imgs, sv.dirs, batch_size_gb)
    /\ prevTarget' = lastWrite.batch
    /\ saves' = saves + 1
    /\ UNCHANGED << confVars, inputDir, pc, mode, runs, faults, todo, cur, df, tasks, results,
                    ri, success_count, total_success, resume_total, returned,
                    fileObs, preexisting, startBatch, retryVars, callVars >>
    /\ UNCHANGED runObs

\* Something outside the store removes a file from a batch directory.
ST_Remove(f) ==
    /\ f \in images
    /\ images' = images \ { f }
    /\ UNCHANGED << confVars, inputDir, batchDirs, procVars, fileObs, storeObs, retryVars, callVars >>
    /\ UNCHANGED runObs

StoreNext ==
    \/ ST_Start
    \/ \E key \in StoreKeys, size \in StoreSizes : ST_Save(key, size)
    \/ \E f \in images : ST_Remove(f)

SpecStore == StoreInit /\ [][StoreNext]_vars

\* ------------------------------ SpecRetry: download_image_with_retry

RetryInit ==
    /\ max_workers = 1
    /\ retries \in -1..MaxRetries
    /\ batch_size_gb = 1
    /\ inputDir = [n \in Names |-> Absent]
    /\ batchDirs = {} /\ images = {}
    /\ ProcIdle /\ StoreObsIdle /\ CallIdle
    /\ rt_fix \in Fixtures
    /\ rt_res = NoResult

\* One call on a row whose URL behaves as rt_fix says.
RT_Call ==
    /\ rt_res = NoResult
    /\ rt_res' = download_image_with_retry(rt_fix, retries)
    /\ UNCHANGED << confVars, diskVars, procVars, fileObs, storeObs, rt_fix, callVars >>
    /\ UNCHANGED runObs

SpecRetry == RetryInit /\ [][RT_Call]_vars

\* --------------------------------------- SpecMark: mark_as_processing

Platforms == { "posix", "windows" }

\* Any input directory: each name holds no file or one of the tables.
MarkInit ==
    /\ max_workers = 1 /\ retries = 0 /\ batch_size_gb = 1
    /\ inputDir \in [Names -> { Absent } \cup InitTables("f1") \cup InitTables("f2")]
    /\ \A n \in Names : inputDir[n].exists => inputDir[n] \in InitTables(n[1])
    /\ batchDirs = {} /\ images = {}
    /\ ProcIdle /\ StoreObsIdle /\ RetryIdle
    /\ mk_os \in Platforms
    /\ mk_res = NoMark
    /\ procs = [p \in Procs |-> NoProc]
    /\ RowsIdle /\ ExtIdle

\* One call mark_as_processing(f) on the path of a pending-form name.
MK_Call(f) ==
    /\ mk_res = NoMark /\ f[2] = ""
    /\ LET r == os_rename(inputDir, f, ProcessingName(f), mk_os)
       IN  /\ inputDir' = r.dir
           /\ mk_res' = [kind |-> IF r.ok THEN "ok" ELSE "error", src |-> f,
                          path |-> IF r.ok THEN ProcessingName(f) ELSE NoName,
                          before |-> inputDir]
    /\ UNCHANGED << confVars, batchDirs, images, procVars, fileObs, runObs, storeObs,
                    retryVars, mk_os, procs, rowVars, extVars >>

MarkNext == \E f \in Names : MK_Call(f)

SpecMark == MarkInit /\ [][MarkNext]_vars

\* ------------------------- SpecRace: two processes, one input directory

RaceInit ==
    /\ max_workers = 1 /\ retries = 0 /\ batch_size_gb = 1
    /\ \E form \in [Stems -> { "", "_processing" }] :
       \E tab \in [Stems -> InitTables("f1") \cup InitTables("f2")] :
          /\ \A s \in Stems : tab[s] \in InitTables(s)
          /\ inputDir = [n \in Names |-> IF n[2] = form[n[1]] THEN tab[n[1]] ELSE Absent]
    /\ batchDirs = {} /\ images = {}
    /\ ProcIdle /\ StoreObsIdle /\ RetryIdle
    /\ mk_os \in Platforms /\ mk_res = NoMark
    /\ procs = [p \in Procs |-> NoProc]
    /\ RowsIdle /\ ExtIdle

RaceRest == << confVars, batchDirs, images, procVars, fileObs, runObs, storeObs,
               retryVars, mk_os, mk_res, rowVars, extVars >>

\* run(), lines 119-123: list the pending files.
RC_List(p) ==
    /\ procs[p].pc = "start"
    /\ procs' = [procs EXCEPT ![p].todo = list_parquet_files(inputDir),
                              ![p].pc = IF list_parquet_files(inputDir) = {} THEN "done" ELSE "loop"]
    /\ UNCHANGED << inputDir, RaceRest >>

\* process_parquet_file, line 58: mark_as_processing; when os.rename raises,
\* run() logs the error and goes on with the next file.
RC_Mark(p, f) ==
    /\ procs[p].pc = "loop" /\ f \in procs[p].todo
    /\ LET r == os_rename(inputDir, f, ProcessingName(f), mk_os)
       IN  /\ inputDir' = r.dir
           /\ procs' = IF r.ok
                        THEN [procs EXCEPT ![p].todo = @ \ { f }, ![p].pc = "read",
                                           ![p].cur = ProcessingName(f),
                                           ![p].renamed = @ \cup { f[1] }]
                        ELSE [procs EXCEPT ![p].todo = @ \ { f },
                                           ![p].errs = @ \cup { f[1] }]
    /\ UNCHANGED RaceRest

\* process_parquet_file, lines 61-69: read the table; with no incomplete row
\* mark it processed.
RC_Read(p) ==
    /\ procs[p].pc = "read"
    /\ LET c == procs[p].cur
           d == read_parquet(inputDir, c)
       IN  IF ~inputDir[c].exists
           THEN /\ procs' = [procs EXCEPT ![p].pc = "loop", ![p].errs = @ \cup { c[1] }]
                /\ UNCHANGED inputDir
           ELSE IF find_incomplete_rows(d.rows) = <<>>
                THEN /\ inputDir' = mark_as_processed(inputDir, c)
                     /\ procs' = [procs EXCEPT ![p].pc = "loop", ![p].df = d,
                                               ![p].completed = @ \cup { c[1] }]
                ELSE /\ procs' = [procs EXCEPT ![p].pc = "fetch", ![p].df = d]
                     /\ UNCHANGED inputDir
    /\ UNCHANGED RaceRest

\* process_parquet_file, lines 74-97: download_batch over the incomplete rows,
\* every one of them ending success or failed.
RC_Fetch(p) ==
    /\ procs[p].pc = "fetch"
    /\ \E out \in [DOMAIN procs[p].df.rows -> { "success", "failed" }] :
          procs' = [procs EXCEPT
                       ![p].pc = "write",
                       ![p].fetched = @ \cup { procs[p].cur[1] },
                       ![p].df.rows = [i \in DOMAIN @ |->
                                          IF IsUnset(@[i])
                                          THEN IF out[i] = "success"
                                               THEN SetSuccessRun(@, i, NoPath)[i]
                                               ELSE SetFailed(@, i, "timed out")[i]
                                          ELSE @[i]]]
    /\ UNCHANGED << inputDir, RaceRest >>

\* process_parquet_file, line 100: write the table back.
RC_Write(p) ==
    /\ procs[p].pc = "write"
    /\ inputDir' = write_parquet(inputDir, procs[p].cur, procs[p].df)
    /\ procs' = [procs EXCEPT ![p].pc = "mark", ![p].wrote = @ \cup { procs[p].cur[1] }]
    /\ UNCHANGED RaceRest

\* process_parquet_file, line 103: mark_as_processed.
RC_Done(p) ==
    /\ procs[p].pc = "mark"
    /\ LET r == os_rename(inputDir, procs[p].cur, ProcessedName(procs[p].cur), mk_os)
       IN  /\ inputDir' = r.dir
           /\ procs' = IF r.ok
                        THEN [procs EXCEPT ![p].pc = "loop", ![p].completed = @ \cup { procs[p].cur[1] }]
                        ELSE [procs EXCEPT ![p].pc = "loop", ![p].errs = @ \cup { procs[p].cur[1] }]
    /\ UNCHANGED RaceRest

\* run(), line 136: the loop is over.
RC_Return(p) ==
    /\ procs[p].pc = "loop" /\ procs[p].todo = {}
    /\ procs' = [procs EXCEPT ![p].pc = "done"]
    /\ UNCHANGED << inputDir, RaceRest >>

RaceNext ==
    \E p \in Procs :
        \/ RC_List(p)
        \/ \E f \in Names : RC_Mark(p, f)
        \/ RC_Read(p)
        \/ RC_Fetch(p)
        \/ RC_Write(p)
        \/ RC_Done(p)
        \/ RC_Return(p)

SpecRace == RaceInit /\ [][RaceNext]_vars

\* ------------------------------------ SpecRows: find_incomplete_rows

\* The cell of a column the stored table does not have.
NoColumn == "nocolumn"

\* A stored table of up to MaxRows rows, with a status column holding None,
\* 'success' or 'failed', or without one.
RowsInit ==
    /\ max_workers = 1 /\ retries = 0 /\ batch_size_gb = 1
    /\ inputDir = [n \in Names |-> Absent]
    /\ batchDirs = {} /\ images = {}
    /\ ProcIdle /\ StoreObsIdle /\ RetryIdle
    /\ mk_os = "posix" /\ mk_res = NoMark /\ procs = [p \in Procs |-> NoProc]
    /\ fi_hascol \in BOOLEAN
    /\ \E n \in 0..MaxRows :
       \E st \in [1..n -> Statuses] :
          fi_rows = [i \in 1..n |->
                        [Row(<< i >>, UrlBare, st[i]) EXCEPT
                            !.status = IF fi_hascol THEN st[i] ELSE NoColumn,
                            !.error = IF fi_hascol THEN @ ELSE "none"]]
    /\ fi_out = NoOut
    /\ ExtIdle

\* read_parquet on the stored table, then find_incomplete_rows on what it
\* gave, then find_incomplete_rows on that result.
FI_Call ==
    /\ ~fi_out.done
    /\ LET loaded == FillStatus(fi_hascol, fi_rows)
       IN  fi_out' = [done |-> TRUE, loaded |-> loaded,
                      rows |-> find_incomplete_rows(loaded),
                      twice |-> find_incomplete_rows(find_incomplete_rows(loaded))]
    /\ UNCHANGED << confVars, diskVars, procVars, fileObs, runObs, storeObs, retryVars,
                    mk_os, mk_res, procs, fi_hascol, fi_rows, extVars >>

SpecRows == RowsInit /\ [][FI_Call]_vars

\* ------------------------------------- SpecExt: get_file_extension

UrlChars == { "a", ".", "/", "?", "P", "n", "g" }

\* The URLs of the documented examples and one per allowed extension.
UrlPngQuery == << "a", ".", "P", "N", "G", "?", "x", "=", "1" >>
UrlNoExt == << "x", ".", "c", "/", "a" >>
UrlTiff == << "x", ".", "c", "/", "a", ".", "t", "i", "f", "f" >>
UrlSamples ==
    { UrlPngQuery, UrlNoExt, UrlTiff }
        \cup { << "a" >> \o e : e \in AllowedExtensions }
        \cup { << "a", ".", "J", "P", "G" >>, << "a", ".", "g", "i", "f", "?", "b", ".", "p", "n", "g" >> }

\* Every string of up to MaxUrlLen of the characters, and the samples.
ExtInit ==
    /\ max_workers = 1 /\ retries = 0 /\ batch_size_gb = 1
    /\ inputDir = [n \in Names |-> Absent]
    /\ batchDirs = {} /\ images = {}
    /\ ProcIdle /\ StoreObsIdle /\ RetryIdle
    /\ mk_os = "posix" /\ mk_res = NoMark /\ procs = [p \in Procs |-> NoProc]
    /\ RowsIdle
    /\ \/ ex_url \in UrlSamples
       \/ \E n \in 1..MaxUrlLen : ex_url \in [1..n -> UrlChars]
    /\ ex_out = NoExt

\* One call get_file_extension(url).
EX_Call ==
    /\ ex_out = NoExt
    /\ ex_out' = get_file_extension(ex_url)
    /\ UNCHANGED << confVars, diskVars, procVars, fileObs, runObs, storeObs, retryVars,
                    mk_os, mk_res, procs, rowVars, ex_url >>

SpecExt == ExtInit /\ [][EX_Call]_vars

\* ================================================================ claims

\* The forms under which the table file of stem s exists, and its rows.
FormsOf(dir, s) == { x \in Suffixes : dir[<< s, x >>].exists }
StemRows(dir, s) ==
    IF FormsOf(dir, s) = {} THEN <<>>
    ELSE dir[<< s, CHOOSE x \in Suffixes : dir[<< s, x >>].exists >>].rows

OneWay(old, new) == old # new => old = "unset" /\ new \in { "success", "failed" }

ResultKeys == { results[j].key : j \in DOMAIN results }

\* C1: over run and resume invocations a row's status changes only from unset
\* to success or from unset to failed, in the table on disk and in the table in
\* memory while the results are applied.
C1_StatusOneWay ==
    [][ /\ \A s \in Stems : \A i \in DOMAIN StemRows(inputDir, s) :
              /\ i \in DOMAIN StemRows(inputDir', s)
              /\ OneWay(StemRows(inputDir, s)[i].status, StemRows(inputDir', s)[i].status)
        /\ (cur' = cur /\ df.rows # <<>> /\ df'.rows # <<>>) =>
              \A i \in DOMAIN df.rows :
                  /\ i \in DOMAIN df'.rows
                  /\ OneWay(df.rows[i].status, df'.rows[i].status) ]_vars

\* C1's case: results were applied and written back for a table that holds a
\* row resolved before (not fetched) and a row that was just resolved.
C1_Witness ==
    /\ pc = "mark"
    /\ \E i \in DOMAIN df.rows : df.rows[i].status = "success" /\ df.rows[i].key \notin ResultKeys
    /\ \E i \in DOMAIN df.rows : df.rows[i].status = "failed" /\ df.rows[i].key \in ResultKeys
    /\ inputDir[cur].rows # <<>> /\ \A i \in DOMAIN df.rows : inputDir[cur].rows[i].status # "unset"

\* C2: every table file is in exactly one of pending, processing, processed,
\* and only ever advances pending -> processing -> processed.
C2_FileLifecycle ==
    /\ [](\A s \in Stems : Cardinality(FormsOf(inputDir, s)) = 1)
    /\ [][ \A s \in Stems :
              FormsOf(inputDir', s) # FormsOf(inputDir, s) =>
                  \/ FormsOf(inputDir, s) = { "" } /\ FormsOf(inputDir', s) = { "_processing" }
                  \/ FormsOf(inputDir, s) = { "_processing" }
                        /\ FormsOf(inputDir', s) = { "_processed" } ]_vars

\* C2's case: one file went all the way to processed while the processing of
\* another ended with a file-level error that left it in processing.
C2_Witness ==
    /\ \E s \in Stems : FormsOf(inputDir, s) = { "_processed" } /\ ret.file # s
    /\ ret.kind = "error" /\ FormsOf(inputDir, ret.file) = { "_processing" }

\* The keys of the rows of the file at hand whose persisted status is unset.
PersistedUnsetKeys ==
    { inputDir[cur].rows[i].key :
        i \in { j \in DOMAIN inputDir[cur].rows : inputDir[cur].rows[j].status = "unset" } }

C4_SuccessHasFilepath ==
    \A k \in DOMAIN savedPath :
        df.rows[Loc(df.rows, k)].status = "success" =>
            df.rows[Loc(df.rows, k)].filepath = savedPath[k]

OkKeys == { results[j].key : j \in { x \in DOMAIN results : results[x].kind = "ok" } }
FailKeys == { results[j].key : j \in { x \in DOMAIN results : results[x].kind = "fail" } }
ImagePlaces == { << f.batch, f.name >> : f \in images }

\* What C5 says of a process_parquet_file call that returned.
ProcessFileResult ==
    /\ \A i \in DOMAIN df.rows :
          /\ df.rows[i].key \in OkKeys => df.rows[i].status = "success"
          /\ df.rows[i].key \in FailKeys =>
                df.rows[i].status = "failed" /\ df.rows[i].error # "none"
    /\ FormsOf(inputDir, ret.file) = { "_processed" }
    /\ written \subseteq ImagePlaces
    /\ Cardinality(written) = Cardinality(OkKeys)
    /\ ret.count = Cardinality(OkKeys)

\* C5: process_parquet_file on a pending file with k rows whose fetch succeeds
\* and m rows whose fetch fails, no save failing: when it has returned, those k
\* rows are success, those m rows are failed with an error message, the file is
\* processed, k image files were written and the returned count is k.
C5_ProcessFileResult ==
    (mode = "run" /\ pc = "run_loop" /\ ret.kind = "ok" /\ ~persistErr) => ProcessFileResult

\* The same with no two fetched rows sharing a sanitized file name: this much
\* holds.
C5_UnlessSameFileName ==
    (/\ mode = "run" /\ pc = "run_loop" /\ ret.kind = "ok" /\ ~persistErr
     /\ \A i, j \in DOMAIN df.rows :
           (i # j /\ df.rows[i].key \in OkKeys /\ df.rows[j].key \in OkKeys) =>
               FileName(df.rows[i].key, get_file_extension(df.rows[i].url))
                   # FileName(df.rows[j].key, get_file_extension(df.rows[j].url)))
        => ProcessFileResult

\* C6: within one process the batch numbers of successive saves never
\* decrease, and a process never writes into a batch directory that existed
\* before it started: its first batch is max(existing) + 1, or 1.
C6_BatchNumbers ==
    runs >= 1 =>
        /\ startBatch = IF preexisting = {} THEN 1
                        ELSE (CHOOSE b \in preexisting : \A c \in preexisting : c <= b) + 1
        /\ current_batch >= startBatch
        /\ lastWrite.batch # 0 =>
              /\ lastWrite.batch \notin preexisting
              /\ lastWrite.batch >= startBatch
              /\ lastWrite.batch >= prevTarget

\* C6's case: the highest batch an earlier process left is below the threshold,
\* and the process saved twice, the second time into a later batch.
C6_Witness ==
    /\ preexisting # {} /\ batch_size_gb > 0
    /\ \A b \in preexisting : DirSize(images, b) < batch_size_gb * UnitsPerGB
    /\ \E b \in preexisting : DirSize(images, b) > 0
    /\ prevTarget # 0 /\ lastWrite.batch > prevTarget

\* C7, as claimed: for every threshold, the directory a save writes into has a
\* size below the threshold when the write begins.
C7_WriteBelowThreshold ==
    lastWrite.batch # 0 => lastWrite.sizeAtStart < batch_size_gb * UnitsPerGB

\* C7, amended: the same for every threshold of at least 1 (with a threshold
\* of 0 every directory, an empty one too, is at the threshold).
C7_WriteBelowPositiveThreshold ==
    (batch_size_gb >= 1 /\ lastWrite.batch # 0) =>
        lastWrite.sizeAtStart < batch_size_gb * UnitsPerGB

\* C7's case: the current batch had reached the threshold and the save rotated.
C7_Witness ==
    /\ batch_size_gb >= 1 /\ prevTarget # 0 /\ lastWrite.batch = prevTarget + 1
    /\ DirSize(images, prevTarget) >= batch_size_gb * UnitsPerGB
    /\ lastWrite.sizeAtStart = 0

\* C8: once a batch directory's size has reached the threshold no later save
\* writes into it, also when files were removed from it since.  (Stated for
\* thresholds of at least 1, where a new directory starts below the threshold.)
C8_NoWriteOnceClosed ==
    (batch_size_gb >= 1 /\ lastWrite.batch # 0) => ~lastWrite.wasClosed

\* C9: download_image_with_retry makes at most retries + 1 attempts, stops at
\* the first success, succeeds exactly when one of those attempts succeeds, and
\* when all of them fail returns the error of the last one.
C9_RetryContract ==
    rt_res # NoResult =>
        LET n == retries + 1
            okAt == { i \in 1..n : rt_fix[i] = "ok" }
        IN  /\ rt_res.attempts <= IF n > 0 THEN n ELSE 0
            /\ rt_res.kind = "ok" <=> okAt # {}
            /\ okAt # {} =>
                  /\ rt_res.attempts \in okAt
                  /\ \A i \in okAt : rt_res.attempts <= i
            /\ (okAt = {} /\ n >= 1) =>
                  /\ rt_res.kind = "fail"
                  /\ rt_res.attempts = n
                  /\ rt_res.err = rt_fix[n]
            /\ n <= 0 => rt_res.kind = "raise"

\* C9's case: the first attempt failed, the second succeeded and a third was
\* still allowed.
C9_Witness ==
    /\ rt_res.kind = "ok" /\ rt_res.attempts = 2 /\ retries >= 2
    /\ rt_fix[1] # "ok"

\* C10: download_batch never raises: it returns one outcome per input key,
\* a payload or an error message, whatever the configuration.
C10_FetchBatchReturns ==
    /\ lastError # "max_workers must be greater than 0"
    /\ pc = "apply" =>
          /\ ResultKeys = KeysOf(SelectSeq(inputDir[cur].rows, IsUnset))
          /\ Len(results) = Cardinality(ResultKeys)
          /\ \A j \in DOMAIN results :
                \/ results[j].kind = "ok" /\ results[j].payload # NoPayload
                \/ results[j].kind = "fail" /\ results[j].err # "none"

\* What holds of download_batch with max_workers >= 1: one outcome per key,
\* a raising task among them.
C10_WithWorkers ==
    (max_workers >= 1 /\ pc = "apply") =>
          /\ ResultKeys = KeysOf(SelectSeq(inputDir[cur].rows, IsUnset))
          /\ Len(results) = Cardinality(ResultKeys)
          /\ \A j \in DOMAIN results :
                \/ results[j].kind = "ok" /\ results[j].payload # NoPayload
                \/ results[j].kind = "fail" /\ results[j].err # "none"

\* The futures of the batch at hand that a worker has started and not finished.
Running == { k \in DOMAIN tasks : tasks[k] = "running" }
NotDone == { k \in DOMAIN tasks : tasks[k] # "done" }

\* C11: during download_batch at most max_workers download_image_with_retry
\* tasks are in flight at any instant, and there is exactly one task per row
\* handed to download_batch (the incomplete rows of the table).
C11_InFlightBounded ==
    pc = "download_wait" =>
        /\ Cardinality(Running) <= max_workers
        /\ DOMAIN tasks = KeysOf(find_incomplete_rows(df.rows))
        /\ Cardinality(DOMAIN tasks) = Len(find_incomplete_rows(df.rows))

\* C11's case: a pool of one worker with one task running and another waiting.
C11_Witness ==
    /\ pc = "download_wait" /\ max_workers = 1
    /\ Cardinality(Running) = 1
    /\ \E k \in DOMAIN tasks : tasks[k] = "queued"

\* C12: no row update, no save_image call and no table write-back happens
\* while a task of the batch at hand is queued or running: every step that
\* changes the table in memory, the image files, Storage.current_batch or the
\* stored rows of the file at hand is taken with every task of the batch done.
C12_Barrier ==
    [][ (\/ (cur' = cur /\ df.rows # <<>> /\ df'.rows # df.rows)
         \/ images' # images
         \/ (pc # "idle" /\ current_batch' # current_batch)
         \/ (cur' = cur /\ cur # NoName /\ inputDir'[cur] # inputDir[cur]))
            => (pc # "download_wait" /\ NotDone = {}) ]_vars

\* C12's case: a batch of two tasks, its results applied with an image saved
\* and the table written back.
C12_Witness ==
    /\ pc = "mark" /\ Cardinality(DOMAIN tasks) = 2 /\ NotDone = {}
    /\ written # {} /\ Len(results) = 2
    /\ \A i \in DOMAIN inputDir[cur].rows : inputDir[cur].rows[i].status # "unset"

RECURSIVE SumCounts(_)
SumCounts(S) ==
    IF S = {} THEN 0
    ELSE LET a == CHOOSE x \in S : TRUE
         IN  a.count + SumCounts(S \ { a })

StemsOf(files) == { f[1] : f \in files }
AttemptedStems == { a.file : a \in attempts }

\* C13: run() calls process_parquet_file for every file list_parquet_files
\* gave it, whether or not an earlier call raised; an error of one file does
\* not end run(), and run() returns the sum of the counts of the calls that
\* returned.
C13_RunBestEffort ==
    /\ (mode = "run" /\ pc = "run_loop") =>
          StemsOf(todo) \cup AttemptedStems = StemsOf(listed)
    /\ (pc = "idle" /\ returned # -1) =>
          /\ AttemptedStems = StemsOf(listed)
          /\ returned - resume_total = SumCounts({ a \in attempts : a.kind = "ok" })

\* C13's case: run() returned after one of its two files raised and the other
\* completed with a downloaded image.
C13_Witness ==
    /\ pc = "idle" /\ returned = 1 /\ Cardinality(listed) = 2
    /\ \E a \in attempts : a.kind = "error"
    /\ \E a \in attempts : a.kind = "ok" /\ a.count = 1

\* run(), called by resume(), has just renamed a pending file to processing.
StartedPending == mode = "run" /\ pc = "read" /\ found # {}

\* C14, as claimed: in resume() no pending file is moved to processing until
\* every file found in processing was handled, and each of those has reached
\* processed by then.
C14_ResumeOrder ==
    StartedPending =>
        \A f \in found :
            /\ f[1] \in { r.file : r \in resumed }
            /\ FormsOf(inputDir, f[1]) = { "_processed" }

\* C14, amended: every file found in processing was handled before a pending
\* file is moved to processing, and each of them whose handling raised no
\* file-level error has reached processed by then.
C14_ResumeOrderUnlessError ==
    StartedPending =>
        \A f \in found :
            \E r \in resumed :
                /\ r.file = f[1]
                /\ r.kind = "ok" => FormsOf(inputDir, f[1]) = { "_processed" }

\* C14's case: resume() finished an interrupted file with a downloaded image,
\* then its run() moved a pending file to processing.
C14_Witness ==
    /\ StartedPending
    /\ \E r \in resumed : r.kind = "ok" /\ r.count = 1
    /\ \A f \in found : FormsOf(inputDir, f[1]) = { "_processed" }

\* C15: mark_as_processing(path) raises and changes no file whenever the
\* processing-form name already exists or path does not exist; it renames path
\* and returns the processing-form name only when path exists and that name
\* does not.
C15_MarkAsProcessingRaces ==
    mk_res.kind # "none" =>
        LET src == mk_res.src
            dst == ProcessingName(mk_res.src)
            before == mk_res.before
        IN  /\ (before[dst].exists \/ ~before[src].exists) =>
                  (mk_res.kind = "error" /\ inputDir = before)
            /\ (before[src].exists /\ ~before[dst].exists) =>
                  /\ mk_res.kind = "ok" /\ mk_res.path = dst
                  /\ inputDir = [before EXCEPT ![dst] = before[src], ![src] = Absent]

\* What holds of mark_as_processing on every platform: a missing path raises
\* and changes nothing, and with path present and the processing-form name
\* free the file is renamed.
C15_MissingSourceRaises ==
    mk_res.kind # "none" =>
        LET src == mk_res.src
            dst == ProcessingName(mk_res.src)
            before == mk_res.before
        IN  /\ ~before[src].exists => (mk_res.kind = "error" /\ inputDir = before)
            /\ (before[src].exists /\ ~before[dst].exists) =>
                  /\ mk_res.kind = "ok" /\ mk_res.path = dst
                  /\ inputDir = [before EXCEPT ![dst] = before[src], ![src] = Absent]

Renamers(s) == { p \in Procs : s \in procs[p].renamed }
Completers(s) == { p \in Procs : s \in procs[p].completed }

\* C16: when two processes running run() on one input directory both call
\* mark_as_processing on the same pending file, exactly one rename succeeds
\* under every interleaving; the other process gets an error, neither fetches
\* a row of that file nor writes its table, and the file is processed by
\* exactly one process.
C16_OneRenameWins ==
    \A s \in Stems :
        /\ Cardinality(Renamers(s)) <= 1
        /\ Cardinality(Completers(s)) <= 1
        /\ (\A p \in Procs : s \in procs[p].renamed \cup procs[p].errs) =>
              Cardinality(Renamers(s)) = 1
        /\ \A p \in Procs :
              s \in procs[p].errs =>
                  /\ s \notin procs[p].renamed \cup procs[p].fetched
                  /\ s \notin procs[p].wrote \cup procs[p].completed
                  /\ Renamers(s) # {}
        /\ ((\A p \in Procs : procs[p].pc = "done") /\ Renamers(s) # {}) =>
              Completers(s) = Renamers(s)

\* C16's case: both processes listed the same pending file; one renamed it,
\* fetched its rows and completed it, the other got the error, and both
\* returned.
C16_Witness ==
    /\ \A p \in Procs : procs[p].pc = "done"
    /\ \E s \in Stems : \E p, q \in Procs :
          /\ s \in procs[p].renamed /\ s \in procs[p].fetched /\ s \in procs[p].completed
          /\ s \in procs[q].errs

\* The keys whose fetch gave a payload and whose save_image call raised (once
\* the results are all applied), and the keys whose image was saved.
PersistFailedKeys == OkKeys \ DOMAIN savedPath
SavedKeys == DOMAIN savedPath

ResultOf(k) == results[CHOOSE j \in DOMAIN results : results[j].key = k]

\* C17: when save_image raises for one fetched row, in process_parquet_file
\* or in resume, that row ends failed with the exception's message and is not
\* counted, every other result of the batch is applied as usual (saved and
\* success, or failed with the fetch error), and the table is written back
\* with these statuses and the file marked processed.
C17_PersistErrorPerRow ==
    (pc \in { "run_loop", "rs_loop" } /\ ret.kind = "ok" /\ persistErr) =>
        /\ \A i \in DOMAIN df.rows :
              LET r == df.rows[i]
              IN  /\ r.key \in PersistFailedKeys =>
                        (r.status = "failed" /\ r.error = "save failed")
                  /\ r.key \in SavedKeys =>
                        /\ r.status = "success"
                        /\ << savedPath[r.key].batch, savedPath[r.key].name >> \in ImagePlaces
                  /\ r.key \in FailKeys =>
                        (r.status = "failed" /\ r.error = ResultOf(r.key).err)
        /\ ret.count = Cardinality(SavedKeys)
        /\ FormsOf(inputDir, ret.file) = { "_processed" }
        /\ LET stored == inputDir[<< ret.file, "_processed" >>].rows
           IN  /\ Len(stored) = Len(df.rows)
               /\ \A i \in DOMAIN df.rows :
                     /\ stored[i].status = df.rows[i].status
                     /\ stored[i].error = df.rows[i].error

\* C17's case: of two fetched rows the first one's save raised and the second
\* was saved, and the file was completed.
C17_Witness ==
    /\ pc \in { "run_loop", "rs_loop" } /\ ret.kind = "ok" /\ persistErr
    /\ Len(results) = 2 /\ ret.count = 1
    /\ results[1].key \in PersistFailedKeys /\ results[2].key \in SavedKeys

\* What the loop at hand (run's or resume's) has recorded of its files.
LoopRecords == IF mode = "resume" THEN resumed ELSE attempts
LoopFiles == IF mode = "resume" THEN found ELSE listed

\* C18: when write_parquet raises, in run() or in resume(), the loop catches
\* the error: the file stays in processing, its success count is not added to
\* the total, and the loop goes on with the files it has left.
C18_WriteBackFailure ==
    /\ (ret.kind = "error" /\ lastError = "write_parquet failed") =>
          /\ pc = LoopPc
          /\ FormsOf(inputDir, ret.file) = { "_processing" }
    /\ pc \in { "run_loop", "rs_loop" } =>
          /\ total_success = SumCounts({ a \in LoopRecords : a.kind = "ok" })
          /\ StemsOf(todo) \cup { a.file : a \in LoopRecords } = StemsOf(LoopFiles)
          /\ \A a \in LoopRecords :
                a.kind = "error" => FormsOf(inputDir, a.file) = { "_processing" }

\* C18's case: the write-back of a file with a saved image failed, and the
\* loop went on to complete the next file; only that one is counted.
C18_Witness ==
    /\ pc \in { "run_loop", "rs_loop" } /\ lastError = "write_parquet failed"
    /\ ret.kind = "ok" /\ ret.count = 1 /\ total_success = 1
    /\ \E a \in LoopRecords : a.kind = "error" /\ FormsOf(inputDir, a.file) = { "_processing" }
    /\ images # {} /\ Cardinality(images) = 2

\* The errors of the four file operations of process_parquet_file.
FileOperationErrors ==
    { "No such file or directory", "read_parquet failed", "write_parquet failed" }

\* What C19 says of a process_parquet_file call that has ended.
ProcessFileEnded ==
    (mode = "run" /\ pc = "run_loop" /\ ret.kind # "none") =>
        \/ ret.kind = "ok" /\ FormsOf(inputDir, ret.file) = { "_processed" }
        \/ ret.kind = "error" /\ lastError \in FileOperationErrors

\* C19: unless mark_as_processing, read_parquet, write_parquet or
\* mark_as_processed fails, a process_parquet_file call ends with the file
\* processed, whatever the rows' outcomes (fetched, fetch failed, save
\* failed): it never ends leaving the file in processing.
C19_ProcessFileCompletes == ProcessFileEnded

\* The same with a pool of at least one worker: this much holds.
C19_WithWorkers == max_workers >= 1 => ProcessFileEnded

\* The positions of the rows of a table whose status is None.
UnsetPositions(rows) == { i \in DOMAIN rows : rows[i].status = "unset" }

\* out holds the rows of rows at the positions in P, in their order in rows.
IsSubsequenceAt(out, rows, P) ==
    /\ Len(out) = Cardinality(P)
    /\ \E f \in [DOMAIN out -> DOMAIN rows] :
          /\ \A j \in DOMAIN out : f[j] \in P /\ out[j] = rows[f[j]]
          /\ \A j, k \in DOMAIN out : j < k => f[j] < f[k]

\* C20: find_incomplete_rows returns exactly the rows whose status is unset,
\* in their original order; applied to its own result it returns the same
\* rows; of a table loaded without a status column it returns every row; of a
\* table whose rows are all success or failed it returns no row.
C20_IncompleteRows ==
    fi_out.done =>
        /\ IsSubsequenceAt(fi_out.rows, fi_out.loaded, UnsetPositions(fi_out.loaded))
        /\ fi_out.twice = fi_out.rows
        /\ ~fi_hascol =>
              /\ Len(fi_out.rows) = Len(fi_rows)
              /\ \A i \in DOMAIN fi_rows : fi_out.rows[i].key = fi_rows[i].key
        /\ (fi_hascol /\ \A i \in DOMAIN fi_rows : fi_rows[i].status \in { "success", "failed" }) =>
              fi_out.rows = <<>>

\* C20's case: a table with a failed row between two unset rows and a success
\* row after them; the two unset rows are returned in their order.
C20_Witness ==
    /\ fi_out.done /\ fi_hascol /\ Len(fi_rows) = 4
    /\ fi_rows[1].status = "unset" /\ fi_rows[2].status = "failed"
    /\ fi_rows[3].status = "unset" /\ fi_rows[4].status = "success"
    /\ Len(fi_out.rows) = 2
    /\ fi_out.rows[1].key = << 1 >> /\ fi_out.rows[2].key = << 3 >>

\* p is url up to its first "?" (all of url when it has none).
IsBeforeQuery(p, url) ==
    \E k \in 0..Len(url) :
        /\ p = SubSeq(url, 1, k)
        /\ \A i \in 1..k : url[i] # "?"
        /\ k < Len(url) => url[k + 1] = "?"

\* e is the extension of path p: empty, or the part of p from a dot on that
\* has no further dot and no "/", the dot not being one of the leading dots
\* of the last component.
IsPathExtension(e, p) ==
    \E k \in 0..Len(p) :
        /\ e = SubSeq(p, k + 1, Len(p))
        /\ LET start == IF \E i \in 1..Len(p) : p[i] = "/"
                         THEN (CHOOSE i \in 1..Len(p) : p[i] = "/" /\ \A j \in (i + 1)..Len(p) : p[j] # "/") + 1
                         ELSE 1
               Counts(d) == p[d] = "." /\ d >= start /\ \E i \in start..(d - 1) : p[i] # "."
           IN  IF k = Len(p)
               THEN \A d \in 1..Len(p) : ~Counts(d)
               ELSE /\ Counts(k + 1)
                    /\ \A d \in (k + 2)..Len(p) : p[d] # "."

Dotted(t) == << "." >> \o t

\* C21: get_file_extension always returns one of .jpg, .jpeg, .png, .gif,
\* .webp, .bmp: the lowercased extension of the URL's path (the query string
\* stripped) when that is one of them, and .jpg when the extension is empty or
\* another one; a.PNG?x=1 gives .png, a gives .jpg and a.tiff gives .jpg.
C21_ExtensionHeuristic ==
    ex_out # NoExt =>
        /\ ex_out \in { Dotted(<< "j", "p", "g" >>), Dotted(<< "j", "p", "e", "g" >>),
                         Dotted(<< "p", "n", "g" >>), Dotted(<< "g", "i", "f" >>),
                         Dotted(<< "w", "e", "b", "p" >>), Dotted(<< "b", "m", "p" >>) }
        /\ \A k \in 0..Len(ex_url) : \A j \in 0..k :
              LET p == SubSeq(ex_url, 1, k)
                  e == SubSeq(ex_url, j + 1, k)
              IN  (IsBeforeQuery(p, ex_url) /\ IsPathExtension(e, p)) =>
                      ex_out = IF Lower(e) \in AllowedExtensions
                               THEN Lower(e)
                               ELSE Dotted(<< "j", "p", "g" >>)
        /\ ex_url = UrlPngQuery => ex_out = Dotted(<< "p", "n", "g" >>)
        /\ ex_url = UrlNoExt => ex_out = Dotted(<< "j", "p", "g" >>)
        /\ ex_url = UrlTiff => ex_out = Dotted(<< "j", "p", "g" >>)

\* C21's case: an upper-case allowed extension followed by a query string.
C21_Witness ==
    /\ ex_url = UrlPngQuery
    /\ ex_out = Dotted(<< "p", "n", "g" >>)

\* C22: over run and resume invocations, a process killed at any point and a
\* later resume included, the payload of a row is written to the output at
\* most once: no row has image files in two different batch directories.
C22_ImageAtMostOnce ==
    \A f, g \in images : f.of = g.of => f.batch = g.batch

\* What holds within one process: the images it has written for the file at
\* hand are one per saved row.
C22_WithinOneCall ==
    \A k \in DOMAIN savedPath :
        \E f \in images : f.batch = savedPath[k].batch /\ f.name = savedPath[k].name

\* The row << stem, position >> is marked success, in the table at hand or in
\* its stored table.
MarkedSuccess(of) ==
    \/ /\ cur # NoName /\ of[1] = cur[1] /\ of[2] \in DOMAIN df.rows
       /\ df.rows[of[2]].status = "success"
    \/ /\ of[1] \in Stems /\ of[2] \in DOMAIN StemRows(inputDir, of[1])
       /\ StemRows(inputDir, of[1])[of[2]].status = "success"

\* C23: every row marked success within one process keeps its own image
\* file, over all the table files the process handles: no save_image call
\* replaces the file written for another success row, rows of different table
\* files with the same key included.
C23_NoOverwrite ==
    [][ \A f \in images : \A g \in images' :
            (g.batch = f.batch /\ g.name = f.name /\ MarkedSuccess(f.of)) => g.of = f.of ]_vars

\* What holds of save_image: the file it writes is named by the sanitized key
\* and the extension and lies in the current batch directory.
C23_PathOfSave ==
    \A k \in DOMAIN savedPath :
        /\ savedPath[k].name = SafeKey(k) \o get_file_extension(df.rows[Loc(df.rows, k)].url)
        /\ savedPath[k].batch \in batchDirs /\ savedPath[k].batch <= current_batch

====
